---- MODULE Spec2Model ----
(***************************************************************************)
(* The session watcher of src-tauri/src/watchers/git.rs: one background    *)
(* thread per call of watch, polling a repository and, when the open       *)
(* session is ready to close, snapshotting working directory, session      *)
(* metadata and logs/HEAD into a commit on refs/gitbutler/current.         *)
(***************************************************************************)
EXTENDS Integers, Sequences, FiniteSets, TLC

VARIABLES
    clock,          \* SystemTime::now() in epoch seconds
    session,        \* the .git/gb/session record (id = 0: no such directory)
    opened,         \* number of sessions the collaborator has opened so far
    wd,             \* working directory: path -> file (size, data, mtime, mode)
    ignored,        \* path -> answer of repo.is_path_ignored
    repo_index,     \* the repository's live index: path -> entry (partial)
    odb,            \* object store: blobs and trees written
    commits,        \* object store: commits, in the order written (oid = position)
    gb_ref,         \* refs/gitbutler/current: 0 (absent) or a commit oid
    lfs,            \* .git/lfs/objects: set of (name, bytes)
    pc,             \* per watcher thread: where it stands
    tick,           \* per watcher thread: locals and record of its tick in progress
    emitted,        \* window.emit attempts: set of commit oids carried
    last            \* the tick that ended in the latest step, if one did

vars == <<clock, session, opened, wd, ignored, repo_index, odb, commits, gb_ref,
          lfs, pc, tick, emitted, last>>

-----------------------------------------------------------------------------
(* Program constants *)

FIVE_MINUTES == 300
ONE_HOUR == 3600
LARGE_FILE_BYTES == 100000000
TREE_MODE == 16384
FILE_MODE == 33188
EXEC_MODE == 33261

(* Bounds of the model *)

MaxSessions == 2
MaxCommits == 2

Watchers == {"w1", "w2"}
ClockValues == {0, 4000}
Paths == {"a", "b"}
PathSeq == <<"a", "b">>

-----------------------------------------------------------------------------
(* Byte counts.  A u64 length is held as gb * 10^9 + b with b < 10^9,      *)
(* so that lengths beyond u32::MAX can be told apart.                      *)

Bytes(gb, b) == [gb |-> gb, b |-> b]
\* the comparison with the threshold made inclusive: metadata.len() >= n
AtLeast(size, n) == size.gb > 0 \/ size.b >= n

\* metadata.len() > n, for n < 10^9
Exceeds(size, n) == size.gb > 0 \/ size.b > n
\* u32::try_from(metadata.len()) succeeds: len <= 4,294,967,295
FitsU32(size) == size.gb < 4 \/ (size.gb = 4 /\ size.b <= 294967295)

\* The bytes of a file, abstracted to their length and an identity of the data.
Content(size, data) == [size |-> size, data |-> data]

NoSession == [id |-> 0, start_ts |-> 0, last_ts |-> 0]

-----------------------------------------------------------------------------
(* Object ids are content-addressed: an id is the content it names. *)

\* repo.blob_path(path): the blob of the file's real bytes
blob_path(content) == [kind |-> "blob", bytes |-> content]

\* sha256_digest(path): streamed digest, formatted {:X} (uppercase hex)
sha256_digest(content) == [hex |-> "upper", of |-> content]

\* the LFS pointer text written as a blob in place of a large file
lfs_pointer(sha, len) == [kind |-> "pointer", oid |-> sha, len |-> len]

-----------------------------------------------------------------------------
(* Session boundary policy *)

\* now - ts on u64: a build with overflow checks panics when ts > now; without
\* them the difference wraps to 2^64 - (ts - now), kept here as (wrapped, v).
u64_sub(now, ts) ==
    IF now >= ts THEN [wrapped |-> FALSE, v |-> now - ts]
                 ELSE [wrapped |-> TRUE, v |-> ts - now]

\* x > k on u64, for a threshold k far below 2^64 - v
u64_gt(x, k) == x.wrapped \/ x.v > k

\* ready_to_commit without the max-age rule: only the idle time closes
ready_to_commit_idle_only(s, now, overflow_checks) ==
    LET elapsed_last == u64_sub(now, s.last_ts)
        elapsed_start == u64_sub(now, s.start_ts)
    IN  IF overflow_checks /\ (elapsed_last.wrapped \/ elapsed_start.wrapped)
        THEN "panic"
        ELSE IF u64_gt(elapsed_last, FIVE_MINUTES)
             THEN "ready"
             ELSE "not_ready"

\* ready_to_commit on Some(current_session): "panic", "ready" or "not_ready"
ready_to_commit(s, now, overflow_checks) ==
    LET elapsed_last == u64_sub(now, s.last_ts)
        elapsed_start == u64_sub(now, s.start_ts)
    IN  IF overflow_checks /\ (elapsed_last.wrapped \/ elapsed_start.wrapped)
        THEN "panic"
        ELSE IF u64_gt(elapsed_last, FIVE_MINUTES) \/ u64_gt(elapsed_start, ONE_HOUR)
             THEN "ready"
             ELSE "not_ready"

-----------------------------------------------------------------------------
(* Working-directory build *)

\* The in-memory index being built, with the side effects made so far:
\* blobs written, copies made under lfs/objects, files whose content was read
\* (blob_path or sha256_digest) and entries taken over from the live index.
EmptyAcc ==
    [status |-> "ok", index |-> <<>>, blobs |-> {}, copies |-> {},
     reads |-> {}, reused |-> {}]

\* the live index entry of p has the file's mtime (seconds and nanoseconds)
same_mtime(p) ==
    /\ p \in DOMAIN repo_index
    /\ repo_index[p].mtime.seconds = wd[p].mtime.seconds
    /\ repo_index[p].mtime.nanoseconds = wd[p].mtime.nanoseconds

\* the index reuse check of add_path: the four comparisons all succeed
entry_matches(p) ==
    /\ same_mtime(p)
    /\ FitsU32(wd[p].size)
    /\ repo_index[p].file_size = wd[p].size
    /\ repo_index[p].mode = wd[p].mode

\* add_new_entry with the copy under lfs/objects named by the lowercase digest
add_new_entry_lowercase_copy(acc, p, fault) ==
    LET f == wd[p]
        bytes == Content(f.size, f.data)
        large == Exceeds(f.size, LARGE_FILE_BYTES)
        sha == sha256_digest(bytes)
        blob == IF large THEN lfs_pointer(sha, f.size) ELSE blob_path(bytes)
        read == [acc EXCEPT !.reads = @ \cup {p}]
        done == [read EXCEPT
                    !.blobs = @ \cup {blob},
                    !.copies = IF large
                               THEN @ \cup {[name |-> [sha EXCEPT !.hex = "lower"],
                                             bytes |-> bytes]}
                               ELSE @]
    IN  IF fault = "read" \/ (fault = "copy" /\ large)
        THEN [read EXCEPT !.status = "err"]
        ELSE IF fault = "convert" \/ ~FitsU32(f.size)
        THEN [done EXCEPT !.status = "err"]
        ELSE [done EXCEPT !.index = (p :> [mode |-> f.mode, id |-> blob]) @@ @]

\* the new-entry part of add_path: blob or pointer, then index.add
add_new_entry(acc, p, fault) ==
    LET f == wd[p]
        bytes == Content(f.size, f.data)
        large == Exceeds(f.size, LARGE_FILE_BYTES)
        sha == sha256_digest(bytes)
        blob == IF large THEN lfs_pointer(sha, f.size) ELSE blob_path(bytes)
        read == [acc EXCEPT !.reads = @ \cup {p}]
        done == [read EXCEPT
                    !.blobs = @ \cup {blob},
                    !.copies = IF large
                               THEN @ \cup {[name |-> sha, bytes |-> bytes]}
                               ELSE @]
    IN  IF fault = "read" \/ (fault = "copy" /\ large)
        THEN [read EXCEPT !.status = "err"]
        ELSE IF fault = "convert" \/ ~FitsU32(f.size)
        THEN [done EXCEPT !.status = "err"]
        ELSE [done EXCEPT !.index = (p :> [mode |-> f.mode, id |-> blob]) @@ @]

\* add_path without the early return of the reuse branch: the entry taken over
\* from the live index is replaced by a new one
add_path_falls_through(acc, p, fault) ==
    IF fault = "stat" THEN [acc EXCEPT !.status = "err"]
    ELSE IF fault = "ctime" THEN [acc EXCEPT !.status = "panic"]
    ELSE IF same_mtime(p) /\ ~FitsU32(wd[p].size)
    THEN [acc EXCEPT !.status = "err"]
    ELSE add_new_entry(acc, p, fault)

\* add_path for one listed, non-ignored path
add_path(acc, p, fault) ==
    IF fault = "stat" THEN [acc EXCEPT !.status = "err"]
    ELSE IF fault = "ctime" THEN [acc EXCEPT !.status = "panic"]
    ELSE IF same_mtime(p) /\ ~FitsU32(wd[p].size)
    THEN [acc EXCEPT !.status = "err"]
    ELSE IF entry_matches(p)
    THEN [acc EXCEPT
            !.index = (p :> [mode |-> repo_index[p].mode,
                             id |-> repo_index[p].id]) @@ @,
            !.reused = @ \cup {p}]
    ELSE add_new_entry(acc, p, fault)

\* is_path_ignored with a failed evaluation taken for "not ignored"
is_path_ignored_or_false(p) == ignored[p] = "yes"

\* repo.is_path_ignored(&file).unwrap_or(true)
is_path_ignored(p) == ignored[p] # "no"

RECURSIVE wd_loop(_, _, _, _)
wd_loop(acc, i, fault, fp) ==
    IF i > Len(PathSeq) \/ acc.status # "ok" THEN acc
    ELSE LET p == PathSeq[i]
             next == IF is_path_ignored(p) THEN acc
                     ELSE add_path(acc, p, IF p = fp THEN fault ELSE "none")
         IN  wd_loop(next, i + 1, fault, fp)

\* build_wd_index: fault "list" is repo.index() or fs::list_files failing;
\* any other fault strikes at path fp
build_wd_index(fault, fp) ==
    IF fault = "list" THEN [EmptyAcc EXCEPT !.status = "err"]
    ELSE wd_loop(EmptyAcc, 1, fault, fp)

WdFaults == {"list", "stat", "ctime", "read", "copy", "convert", "write_tree"}

-----------------------------------------------------------------------------
(* Session-metadata and log builds *)

\* a small metadata file holding one number
MetaFile(n) == Content(Bytes(0, 8), n)

\* the files under .git/gb/session of session record s
session_files(s) ==
    [name \in {"meta/start", "meta/last"} |->
        IF name = "meta/start" THEN MetaFile(s.start_ts) ELSE MetaFile(s.last_ts)]

\* build_session_index: every listed file gets a fresh blob (add_session_path);
\* a missing directory or a failing read is "io", a missing creation time "ctime"
build_session_index(s, fault) ==
    IF s.id = 0 \/ fault = "io" THEN [status |-> "err", index |-> <<>>, blobs |-> {}]
    ELSE IF fault = "ctime" THEN [status |-> "panic", index |-> <<>>, blobs |-> {}]
    ELSE LET files == session_files(s)
         IN  [status |-> "ok",
              index |-> [name \in DOMAIN files |->
                            [mode |-> FILE_MODE, id |-> blob_path(files[name])]],
              blobs |-> {blob_path(files[name]) : name \in DOMAIN files}]

\* .git/logs/HEAD
LogHead == Content(Bytes(0, 64), 0)

\* build_log_index over a logs/HEAD that gains a line with every commit written
build_log_index_growing(fault) ==
    IF fault = "io" THEN [status |-> "err", index |-> <<>>, blobs |-> {}]
    ELSE IF fault = "ctime" THEN [status |-> "panic", index |-> <<>>, blobs |-> {}]
    ELSE [status |-> "ok",
          index |-> ("HEAD" :> [mode |-> FILE_MODE,
                                id |-> blob_path(Content(Bytes(0, 64), Len(commits)))]),
          blobs |-> {blob_path(Content(Bytes(0, 64), Len(commits)))}]

\* build_log_index: one entry, named HEAD
build_log_index(fault) ==
    IF fault = "io" THEN [status |-> "err", index |-> <<>>, blobs |-> {}]
    ELSE IF fault = "ctime" THEN [status |-> "panic", index |-> <<>>, blobs |-> {}]
    ELSE [status |-> "ok",
          index |-> ("HEAD" :> [mode |-> FILE_MODE, id |-> blob_path(LogHead)]),
          blobs |-> {blob_path(LogHead)}]

BuildFaults == {"io", "ctime", "write_tree"}

\* root_tree with the session tree inserted as wd and the wd tree as session
root_tree_swapped(wd_tree, session_tree, log_tree) ==
    [session |-> [mode |-> TREE_MODE, id |-> wd_tree],
     wd |-> [mode |-> TREE_MODE, id |-> session_tree],
     logs |-> [mode |-> TREE_MODE, id |-> log_tree]]

\* the three tree_builder.insert calls of check_for_changes
root_tree(wd_tree, session_tree, log_tree) ==
    [session |-> [mode |-> TREE_MODE, id |-> session_tree],
     wd |-> [mode |-> TREE_MODE, id |-> wd_tree],
     logs |-> [mode |-> TREE_MODE, id |-> log_tree]]

-----------------------------------------------------------------------------
(* Commit chain writer *)

\* a commit written without a reference to update, the reference then forced
\* onto it: the store has no tip to check the first parent against
repo_commit_forced(t, parents) ==
    [status |-> "ok",
     oid |-> Len(commits) + 1,
     commits |-> Append(commits,
                   [parents |-> parents, tree |-> t.tree, sid |-> t.built_sid,
                    meta |-> t.meta, files |-> t.files, reads |-> t.reads, reused |-> t.reused]),
     gb_ref |-> Len(commits) + 1]

\* repo.commit(Some("refs/gitbutler/current"), .., tree, parents): the store
\* refuses a commit whose first parent is not the current tip of the reference
\* it is to update; otherwise it writes the commit and repoints the reference.
\* Beside parents and tree a commit carries, for the record, what its tick built
\* it from: the session and its metadata files, the files of the working
\* directory, and which of them were read or reused.
repo_commit(t, parents) ==
    IF gb_ref # 0 /\ (parents = <<>> \/ parents[1] # gb_ref)
    THEN [status |-> "err", oid |-> 0, commits |-> commits, gb_ref |-> gb_ref]
    ELSE [status |-> "ok",
          oid |-> Len(commits) + 1,
          commits |-> Append(commits,
                        [parents |-> parents, tree |-> t.tree, sid |-> t.built_sid,
                         meta |-> t.meta, files |-> t.files, reads |-> t.reads, reused |-> t.reused]),
          gb_ref |-> Len(commits) + 1]

\* revparse_single("refs/gitbutler/current") and find_commit, lines 376-378:
\* the parents of the commit to write.  Err(_) takes every error of the lookup
\* for a missing reference.
revparse_single(fails) ==
    IF gb_ref # 0 /\ ~fails THEN <<gb_ref>> ELSE <<>>

CommitFaults == {"none", "signature", "commit"}

\* write_gb_commit committing without a reference to update and then forcing
\* refs/gitbutler/current onto the new commit
write_gb_commit_forcing(t, fault) ==
    LET unchanged == [oid |-> 0, commits |-> commits, gb_ref |-> gb_ref]
    IN  IF fault = "signature" THEN [status |-> "panic"] @@ unchanged
        ELSE IF fault = "commit" THEN [status |-> "err"] @@ unchanged
        ELSE repo_commit_forced(t, t.parents)

\* write_gb_commit after the lookup, lines 379-398: "signature" is
\* repo.signature() failing under unwrap, "commit" a store error in repo.commit
write_gb_commit(t, fault) ==
    LET unchanged == [oid |-> 0, commits |-> commits, gb_ref |-> gb_ref]
    IN  IF fault = "signature" THEN [status |-> "panic"] @@ unchanged
        ELSE IF fault = "commit" THEN [status |-> "err"] @@ unchanged
        ELSE repo_commit(t, t.parents)

-----------------------------------------------------------------------------
(* Snapshot builder: check_for_changes, lines 84-101 *)

\* Where the environment makes the build fail, if anywhere: the first failure
\* ends the tick, so one place is enough.
NoFault == [at |-> "none", what |-> "none", path |-> ""]
FaultPoints ==
    {NoFault}
    \cup {[at |-> "wd", what |-> f, path |-> p] : f \in WdFaults, p \in Paths}
    \cup {[at |-> a, what |-> f, path |-> ""] : a \in {"session", "logs"}, f \in BuildFaults}
    \cup {[at |-> "root", what |-> "write_tree", path |-> ""]}

FaultAt(fault, name) == IF fault.at = name THEN fault.what ELSE "none"

\* index.write_tree_to(&repo) after sub-build r: the running build b goes on
\* with the tree written, or stops at the sub-build's failure or at the write's
write_tree_to(b, r, name, fault) ==
    IF b.status # "ok" THEN b
    ELSE LET b1 == [b EXCEPT !.blobs = @ \cup r.blobs]
         IN  IF r.status # "ok"
             THEN [b1 EXCEPT !.status = r.status, !.failed = name]
             ELSE IF FaultAt(fault, name) = "write_tree"
             THEN [b1 EXCEPT !.status = "err", !.failed = name \o "_tree"]
             ELSE [b1 EXCEPT !.trees = @ \cup {r.index},
                             !.wrote = @ \cup {name},
                             ![name] = r.index]

\* the three sub-builds, each followed by the write of its tree
sub_builds(s, fault) ==
    LET w == build_wd_index(FaultAt(fault, "wd"), fault.path)
        b0 == [status |-> "ok", failed |-> "", blobs |-> {}, trees |-> {},
               copies |-> w.copies, reads |-> w.reads, reused |-> w.reused,
               wrote |-> {}, wd |-> <<>>, session |-> <<>>, logs |-> <<>>,
               tree |-> <<>>]
        b1 == write_tree_to(b0, w, "wd", fault)
        b2 == write_tree_to(b1, build_session_index(s, FaultAt(fault, "session")),
                            "session", fault)
    IN  write_tree_to(b2, build_log_index(FaultAt(fault, "logs")), "logs", fault)

\* snapshot_build with the root tree written whatever the sub-builds returned
snapshot_build_eager_root(s, fault) ==
    LET b == sub_builds(s, fault)
        root == root_tree(b.wd, b.session, b.logs)
    IN  IF b.status = "ok" /\ fault.at = "root"
        THEN [b EXCEPT !.status = "err", !.failed = "root"]
        ELSE [b EXCEPT !.trees = @ \cup {root}, !.wrote = @ \cup {"root"},
                       !.tree = root]

\* the sub-builds, then the root tree of the three trees (tree_builder)
snapshot_build(s, fault) ==
    LET b == sub_builds(s, fault)
        root == root_tree(b.wd, b.session, b.logs)
    IN  IF b.status # "ok" THEN b
        ELSE IF fault.at = "root" THEN [b EXCEPT !.status = "err", !.failed = "root"]
        ELSE [b EXCEPT !.trees = @ \cup {root}, !.wrote = @ \cup {"root"},
                       !.tree = root]

-----------------------------------------------------------------------------
(* The watcher threads *)

\* Locals of check_for_changes (tree, commit_oid) and of write_gb_commit
\* (parents) and the record of what the tick has done: the session
\* ready_to_commit saw and its answer, the session whose metadata was built and
\* its files as built, the files of the working directory as built, those
\* read (blob_path, sha256_digest) and those reused from the live index, the
\* objects written, the step that failed, the delete and the emits made.
BlankTick ==
    [tree |-> <<>>, parents |-> <<>>, commit_oid |-> 0,
     seen |-> 0, ready |-> FALSE, built_sid |-> 0, meta |-> <<>>,
     files |-> <<>>, reads |-> {}, reused |-> {},
     wrote |-> {}, failed |-> "", deleted |-> FALSE, emits |-> 0]

NoLast == [w |-> "", panicked |-> FALSE, t |-> BlankTick]

\* the thread is between two ticks (in thread::sleep) or, panicked, gone
Ended(w, t, panicked) ==
    /\ pc' = [pc EXCEPT ![w] = IF panicked THEN "panicked" ELSE "idle"]
    /\ tick' = [tick EXCEPT ![w] = BlankTick]
    /\ last' = [w |-> w, panicked |-> panicked,
                t |-> [t EXCEPT !.tree = <<>>, !.files = <<>>, !.parents = <<>>,
                             !.meta = <<>>]]

\* after a step of check_for_changes: on with the next step; or back in watch
\* with Err, which is logged before the sleep; or the thread dies of a panic
Goto(w, t, status, next, step) ==
    IF status = "ok"
    THEN /\ pc' = [pc EXCEPT ![w] = next]
         /\ tick' = [tick EXCEPT ![w] = t]
         /\ last' = NoLast
    ELSE Ended(w, [t EXCEPT !.failed = step], status = "panic")

Stores == <<session, odb, commits, gb_ref, lfs, emitted>>
Env == <<clock, opened, wd, ignored, repo_index>>

\* watch: open the repository and spawn the loop
watch(w) ==
    /\ pc[w] = "unstarted"
    /\ pc' = [pc EXCEPT ![w] = "idle"]
    /\ last' = NoLast
    /\ UNCHANGED <<tick, Stores, Env>>

\* ok_none with delete_current_session called outside the if
ok_none_deleting(w, t) ==
    /\ Ended(w, t, FALSE)
    /\ session' = NoSession
    /\ UNCHANGED <<odb, commits, gb_ref, lfs, emitted>>

\* check_for_changes returning Ok(None): nothing is done, watch sleeps
ok_none(w, t) ==
    /\ Ended(w, t, FALSE)
    /\ UNCHANGED Stores

\* the loop wakes and calls check_for_changes, line 83: ready_to_commit(repo)?
\* Session::current may fail; the build has overflow checks or has none
ready_step(w, current_fails, overflow_checks) ==
    /\ pc[w] = "idle"
    /\ LET t == [BlankTick EXCEPT !.seen = session.id]
           r == ready_to_commit(session, clock, overflow_checks)
       IN  IF current_fails
           THEN Goto(w, [t EXCEPT !.seen = 0], "err", "build", "current")
                /\ UNCHANGED Stores
           ELSE IF session.id = 0 \/ r = "not_ready"
           THEN ok_none(w, t)
           ELSE /\ Goto(w, [t EXCEPT !.ready = (r = "ready")],
                        IF r = "ready" THEN "ok" ELSE "panic", "build", "ready")
                /\ UNCHANGED Stores
    /\ UNCHANGED Env

check_ready(w) ==
    \E current_fails \in BOOLEAN, overflow_checks \in BOOLEAN :
       ready_step(w, current_fails, overflow_checks)

\* check_build retiring the session record when the build has failed
check_build_retiring(w) ==
    /\ pc[w] = "build"
    /\ \E fault \in FaultPoints : \E b \in {snapshot_build(session, fault)} :
         LET t == [tick[w] EXCEPT
                     !.tree = b.tree, !.built_sid = session.id,
                     !.meta = session_files(session),
                     !.files = wd, !.reads = b.reads, !.reused = b.reused,
                     !.wrote = b.wrote]
         IN  /\ odb' = [blobs |-> odb.blobs \cup b.blobs,
                        trees |-> odb.trees \cup b.trees]
             /\ lfs' = lfs \cup b.copies
             /\ session' = IF b.status = "ok" THEN session ELSE NoSession
             /\ Goto(w, t, b.status, "commit", b.failed)
    /\ UNCHANGED <<commits, gb_ref, emitted, Env>>

\* check_for_changes, lines 84-101: the three sub-builds and the root tree
build_step(w, fault) ==
    /\ pc[w] = "build"
    /\ \E b \in {snapshot_build(session, fault)} :
         LET t == [tick[w] EXCEPT
                     !.tree = b.tree, !.built_sid = session.id,
                     !.meta = session_files(session),
                     !.files = wd, !.reads = b.reads, !.reused = b.reused,
                     !.wrote = b.wrote]
         IN  /\ odb' = [blobs |-> odb.blobs \cup b.blobs,
                        trees |-> odb.trees \cup b.trees]
             /\ lfs' = lfs \cup b.copies
             /\ Goto(w, t, b.status, "commit", b.failed)
    /\ UNCHANGED <<session, commits, gb_ref, emitted, Env>>

check_build(w) == \E fault \in FaultPoints : build_step(w, fault)

\* check_for_changes, line 103, entering write_gb_commit: the lookup of the
\* reference, lines 376-378 and 389
revparse_step(w, fails) ==
    /\ pc[w] = "commit"
    /\ Goto(w, [tick[w] EXCEPT !.parents = revparse_single(fails)], "ok", "write", "")
    /\ UNCHANGED <<Stores, Env>>

check_revparse(w) == \E fails \in BOOLEAN : revparse_step(w, fails)

\* write_gb_commit, lines 379-398: repo.commit, and back in check_for_changes
\* with its result, lines 103-108
commit_step(w, fault) ==
    /\ pc[w] = "write"
    /\ \E r \in {write_gb_commit(tick[w], fault)} :
         LET t == [tick[w] EXCEPT
                     !.commit_oid = r.oid,
                     !.wrote = IF r.status = "ok" THEN @ \cup {"commit"} ELSE @]
         IN  /\ Len(r.commits) <= MaxCommits
             /\ commits' = r.commits
             /\ gb_ref' = r.gb_ref
             /\ Goto(w, t, r.status, "delete", "commit")
    /\ UNCHANGED <<session, odb, lfs, emitted, Env>>

check_commit(w) == \E fault \in CommitFaults : commit_step(w, fault)

\* sessions::delete_current_session(repo): removes the record that is current
delete_current_session(w, fails) ==
    IF fails
    THEN Goto(w, tick[w], "err", "view", "delete") /\ UNCHANGED session
    ELSE /\ session' = NoSession
         /\ Goto(w, [tick[w] EXCEPT !.deleted = TRUE], "ok", "view", "")

\* check_for_changes, line 109
delete_step(w, fails) ==
    /\ pc[w] = "delete"
    /\ delete_current_session(w, fails)
    /\ UNCHANGED <<odb, commits, gb_ref, lfs, emitted, Env>>

check_delete(w) == \E fails \in BOOLEAN : delete_step(w, fails)

\* check_for_changes, lines 111-114 (find_commit, Session::from_commit), then
\* watch, lines 51-57: window.emit, whose failure is only logged
view_emit_step(w, fails) ==
    /\ pc[w] = "view"
    /\ IF fails
       THEN Goto(w, tick[w], "err", "idle", "view") /\ UNCHANGED emitted
       ELSE /\ emitted' = emitted \cup {tick[w].commit_oid}
            /\ Ended(w, [tick[w] EXCEPT !.emits = @ + 1], FALSE)
    /\ UNCHANGED <<session, odb, commits, gb_ref, lfs, Env>>

check_view_emit(w) == \E fails \in BOOLEAN : view_emit_step(w, fails)

-----------------------------------------------------------------------------
(* The environment: the clock and the session-store collaborator *)

\* time passes
AdvanceClock ==
    /\ \E c \in ClockValues : c > clock /\ clock' = c
    /\ last' = NoLast
    /\ UNCHANGED <<opened, wd, ignored, repo_index, Stores, pc, tick>>

\* the wall clock is set back
SetClockBack ==
    /\ \E c \in ClockValues : c < clock /\ clock' = c
    /\ last' = NoLast
    /\ UNCHANGED <<opened, wd, ignored, repo_index, Stores, pc, tick>>

\* the collaborator opens a session on first activity
OpenSession ==
    /\ session.id = 0
    /\ opened < MaxSessions
    /\ opened' = opened + 1
    /\ session' = [id |-> opened + 1, start_ts |-> clock, last_ts |-> clock]
    /\ last' = NoLast
    /\ UNCHANGED <<clock, wd, ignored, repo_index, odb, commits, gb_ref, lfs,
                   emitted, pc, tick>>

\* the collaborator records activity in the open session
Activity ==
    /\ session.id # 0
    /\ session.last_ts # clock
    /\ session' = [session EXCEPT !.last_ts = clock]
    /\ last' = NoLast
    /\ UNCHANGED <<clock, opened, wd, ignored, repo_index, odb, commits, gb_ref,
                   lfs, emitted, pc, tick>>

-----------------------------------------------------------------------------
(* The working directory and the live index the watcher finds *)

\* sizes of files: at the large-file threshold, one byte above it, at
\* u32::MAX and one byte above it; an index entry's file_size is a u32
FileSizes ==
    {Bytes(0, 100000000), Bytes(0, 100000001), Bytes(4, 294967295), Bytes(4, 294967296)}
IndexSizes == {s \in FileSizes : FitsU32(s)}
FileData == {1, 2}
Mtimes == {[seconds |-> 100, nanoseconds |-> 0], [seconds |-> 100, nanoseconds |-> 7],
           [seconds |-> 200, nanoseconds |-> 0]}
Modes == {FILE_MODE, EXEC_MODE}

Files == [size : FileSizes, data : FileData, mtime : Mtimes, mode : Modes]
IndexedFiles == {f \in Files : f.size \in IndexSizes}

\* git add of file f: the entry takes f's metadata and the blob of its bytes
git_add(f) ==
    [mtime |-> f.mtime, file_size |-> f.size, mode |-> f.mode,
     id |-> blob_path(Content(f.size, f.data))]

-----------------------------------------------------------------------------

SmallFile == [size |-> Bytes(0, 10), data |-> 1,
              mtime |-> [seconds |-> 100, nanoseconds |-> 0], mode |-> FILE_MODE]

\* path a is subject to no ignore rule, path b is ignored
OnlyA == [p \in Paths |-> IF p = "a" THEN "no" ELSE "yes"]

Init ==
    /\ clock = 0
    /\ session = NoSession
    /\ opened = 0
    /\ wd = [p \in Paths |-> SmallFile]
    /\ ignored = OnlyA
    /\ repo_index = <<>>
    /\ odb = [blobs |-> {}, trees |-> {}]
    /\ commits = <<>>
    /\ gb_ref = 0
    /\ lfs = {}
    /\ pc = [w \in Watchers |-> "unstarted"]
    /\ tick = [w \in Watchers |-> BlankTick]
    /\ emitted = {}
    /\ last = NoLast

Step(w) ==
    \/ watch(w)
    \/ check_ready(w)
    \/ check_build(w)
    \/ check_revparse(w)
    \/ check_commit(w)
    \/ check_delete(w)
    \/ check_view_emit(w)

Next ==
    \/ AdvanceClock
    \/ SetClockBack
    \/ OpenSession
    \/ Activity
    \/ Step("w1")

\* one call of watch for the project
Spec == Init /\ [][Next]_vars

NextRewatch ==
    \/ AdvanceClock
    \/ OpenSession
    \/ \E w \in Watchers : Step(w)

\* Any file in the working directory, its path absent from the live index or
\* added to it when the file was in this or another state.
InitWd ==
    /\ clock = 0
    /\ session = NoSession
    /\ opened = 0
    /\ \E f \in Files :
         /\ f.mode = FILE_MODE /\ f.mtime.seconds = 100
         /\ wd = [p \in Paths |-> IF p = "a" THEN f ELSE SmallFile]
    /\ ignored = OnlyA
    /\ \E tracked \in SUBSET {"a"} :
         repo_index \in [tracked -> {git_add(f) : f \in IndexedFiles}]
    /\ odb = [blobs |-> {}, trees |-> {}]
    /\ commits = <<>>
    /\ gb_ref = 0
    /\ lfs = {}
    /\ pc = [w \in Watchers |-> "unstarted"]
    /\ tick = [w \in Watchers |-> BlankTick]
    /\ emitted = {}
    /\ last = NoLast

NextWd ==
    \/ AdvanceClock
    \/ OpenSession
    \/ Step("w1")

\* one watcher, over every working directory and live index
SpecWd == InitWd /\ [][NextWd]_vars

\* a step of the loop in which nothing fails
TickOk(w) ==
    \/ watch(w)
    \/ ready_step(w, FALSE, FALSE)
    \/ build_step(w, NoFault)
    \/ revparse_step(w, FALSE)
    \/ commit_step(w, "none")
    \/ delete_step(w, FALSE)
    \/ view_emit_step(w, FALSE)

NextLive ==
    \/ AdvanceClock
    \/ OpenSession
    \/ Activity
    \/ TickOk("w1")

\* the working directories whose build can succeed, the file either absent
\* from the live index or in it as it is
InitLive ==
    /\ InitWd
    /\ \A p \in Paths : FitsU32(wd[p].size)
    /\ \A p \in DOMAIN repo_index : repo_index[p] = git_add(wd[p])

\* one watcher whose ticks keep running (thread::sleep returns) and never fail,
\* under a clock that advances; the collaborator records activity at will
SpecLive ==
    InitLive /\ [][NextLive]_vars /\ WF_vars(TickOk("w1")) /\ WF_vars(AdvanceClock)

\* Two small files, each of them ignored, not ignored, or with an ignore rule
\* that cannot be evaluated.
InitIgnore ==
    /\ clock = 0
    /\ session = NoSession
    /\ opened = 0
    /\ wd = [p \in Paths |-> [SmallFile EXCEPT !.data = IF p = "a" THEN 1 ELSE 2]]
    /\ ignored \in [Paths -> {"no", "yes", "err"}]
    /\ repo_index = <<>>
    /\ odb = [blobs |-> {}, trees |-> {}]
    /\ commits = <<>>
    /\ gb_ref = 0
    /\ lfs = {}
    /\ pc = [w \in Watchers |-> "unstarted"]
    /\ tick = [w \in Watchers |-> BlankTick]
    /\ emitted = {}
    /\ last = NoLast

\* one watcher, over every answer of the ignore rules
SpecIgnore == InitIgnore /\ [][NextWd]_vars

\* watch may be called again for the same project: two loops on one repository
SpecRewatch == Init /\ [][NextRewatch]_vars

-----------------------------------------------------------------------------
(* Properties *)

\* the step ends a tick of watcher w
EndsTick(w) == last'.w = w

\* the step is watcher w's call of ready_to_commit, and the session was read
Decides(w) == pc[w] = "idle" /\ (pc'[w] = "build" \/ (EndsTick(w) /\ last'.t.failed # "current"))

\* C1: on a tick with an open session the session is closed iff
\* now - last_ts > 300 or now - start_ts > 3600; with no open session it is
\* never closed.
C1_ClosureIffElapsed ==
    [][\A w \in Watchers :
         Decides(w) =>
           (pc'[w] = "build" <=>
              /\ session.id # 0
              /\ \/ clock - session.last_ts > FIVE_MINUTES
                 \/ clock - session.start_ts > ONE_HOUR)]_vars

\* C2: every commit written has as its sole parent the commit that
\* refs/gitbutler/current pointed to just before the write, is parentless only
\* when the reference pointed at no commit, and becomes the reference's target.
C2_LinearChain ==
    [][commits' # commits =>
         /\ Len(commits') = Len(commits) + 1
         /\ SubSeq(commits', 1, Len(commits)) = commits
         /\ commits'[Len(commits')].parents =
               (IF gb_ref = 0 THEN <<>> ELSE <<gb_ref>>)
         /\ gb_ref' = Len(commits')]_vars

\* C2 happens: two loops looked up the same tip, and one of them has appended
\* its commit to it while the other is still to call repo.commit
C2_Witness ==
    /\ Len(commits) = 2 /\ commits[2].parents = <<1>> /\ gb_ref = 2
    /\ \E w \in Watchers : pc[w] = "write" /\ tick[w].parents = <<1>>

SubBuilds == {"wd", "session", "logs"}
RootNames == {"wd", "session", "logs"}

\* the sub-builds that come before the named one
Before(name) ==
    IF name = "wd" THEN {} ELSE IF name = "session" THEN {"wd"} ELSE {"wd", "session"}

\* C3 as claimed: when a sub-build of a tick fails, no tree object and no
\* commit object of that tick has been written.
C3_NoTreeOnFailure ==
    [][(last'.w # "" /\ last'.t.failed \in SubBuilds) =>
         (odb'.trees = odb.trees /\ commits' = commits)]_vars

\* C3 as amended: when a sub-build of a tick fails, no root tree and no commit
\* of that tick has been written and the reference has not moved; the only
\* trees written are those of the sub-builds that came before the failing one.
C3_NoRootOrCommitOnFailure ==
    [][(last'.w # "" /\ last'.t.failed \in SubBuilds) =>
         /\ commits' = commits
         /\ gb_ref' = gb_ref
         /\ \A t \in odb'.trees \ odb.trees : DOMAIN t # RootNames
         /\ last'.t.wrote \subseteq Before(last'.t.failed)]_vars

\* C3 happens: the session build failed after the wd tree had been written
C3_Witness ==
    last.w # "" /\ last.t.failed = "session" /\ last.t.wrote = {"wd"}

\* C4: no session gets more than one commit on refs/gitbutler/current.
C4_OneCommitPerSession ==
    \A sid \in 1..MaxSessions :
       Cardinality({n \in 1..Len(commits) : commits[n].sid = sid}) <= 1

\* C5: whatever fails inside a tick, the watcher loop goes on; it never
\* terminates.
C5_LoopNeverTerminates == \A w \in Watchers : pc[w] # "panicked"

\* the bytes of path p as commit n's tick found them
BytesAt(n, p) == Content(commits[n].files[p].size, commits[n].files[p].data)

\* the entry of path p in the wd tree of commit n
WdEntry(n, p) == commits[n].tree.wd.id[p]

\* path p of commit n is entered as a pointer carrying the digest and the byte
\* count of the file, and lfs/objects holds the file's bytes under that digest
Externalized(n, p) ==
    /\ p \in DOMAIN commits[n].tree.wd.id
    /\ WdEntry(n, p).id.kind = "pointer"
    /\ WdEntry(n, p).id.oid.of = BytesAt(n, p)
    /\ WdEntry(n, p).id.len = commits[n].files[p].size
    /\ \E c \in lfs : c.name = WdEntry(n, p).id.oid /\ c.bytes = BytesAt(n, p)

\* C6 as claimed: in every committed snapshot every non-ignored file larger
\* than 100,000,000 bytes is entered as a pointer with its digest and size and
\* has a byte-identical copy in lfs/objects under that digest, whether or not
\* the path has an entry in the live index.
C6_LargeFilesExternalized ==
    \A n \in 1..Len(commits) : \A p \in Paths :
       (ignored[p] = "no" /\ Exceeds(commits[n].files[p].size, LARGE_FILE_BYTES))
          => Externalized(n, p)

\* C6 as amended: the same, for the large files that the index reuse check did
\* not satisfy; a large file whose live index entry matches is entered with the
\* index entry's object id.
C6_LargeNewFilesExternalized ==
    \A n \in 1..Len(commits) : \A p \in Paths :
       (ignored[p] = "no" /\ Exceeds(commits[n].files[p].size, LARGE_FILE_BYTES))
          => IF p \in commits[n].reused
             THEN p \in DOMAIN repo_index /\ WdEntry(n, p).id = repo_index[p].id
             ELSE Externalized(n, p)

\* C6 happens: a snapshot holds a large file that was not taken from the index
C6_Witness ==
    \E n \in 1..Len(commits) : \E p \in Paths :
       /\ Exceeds(commits[n].files[p].size, LARGE_FILE_BYTES)
       /\ p \notin commits[n].reused
       /\ WdEntry(n, p).id.kind = "pointer"

\* mtime (seconds and nanoseconds), size and mode of two files are the same
SameMetadata(f, g) ==
    /\ f.mtime.seconds = g.mtime.seconds
    /\ f.mtime.nanoseconds = g.mtime.nanoseconds
    /\ f.size = g.size
    /\ f.mode = g.mode

\* C7 as claimed: a file whose mtime, size and mode are unchanged between two
\* consecutive snapshots has the same object id in both and is not read for
\* the second.
C7_UnchangedFilesNotReread ==
    \A n \in 2..Len(commits) : \A p \in Paths :
       (ignored[p] = "no" /\ SameMetadata(commits[n - 1].files[p], commits[n].files[p]))
          => /\ WdEntry(n, p).id = WdEntry(n - 1, p).id
             /\ p \notin commits[n].reads

\* the live index has an entry for p with the file's mtime, size and mode
IndexHasFile(p) ==
    /\ p \in DOMAIN repo_index
    /\ repo_index[p].mtime.seconds = wd[p].mtime.seconds
    /\ repo_index[p].mtime.nanoseconds = wd[p].mtime.nanoseconds
    /\ repo_index[p].file_size = wd[p].size
    /\ repo_index[p].mode = wd[p].mode

\* C7 as amended: a build enters a file whose live index entry has the file's
\* mtime, size and mode with the index entry's object id and does not read it;
\* every other file it reads, changed since the previous snapshot or not.
C7_IndexedFilesNotReread ==
    [][\A w \in Watchers : (pc[w] = "build" /\ pc'[w] = "commit") =>
         \A p \in Paths : ignored[p] = "no" =>
            IF IndexHasFile(p)
            THEN /\ tick'[w].tree.wd.id[p].id = repo_index[p].id
                 /\ p \notin tick'[w].reads
            ELSE p \in tick'[w].reads]_vars

\* C7 happens: the build of a second snapshot reused an entry of the live index
C7_Witness ==
    \E w \in Watchers :
       pc[w] = "commit" /\ Len(commits) = 1 /\ tick[w].reused # {} /\ tick[w].reads = {}

\* C8: a tick that finds no open session, or an open session that is not ready
\* to close, leaves the reference, the object store, lfs/objects and the session
\* record unchanged and emits nothing.
C8_IdleTickDoesNothing ==
    [][(last'.w # "" /\ ~last'.t.ready /\ last'.t.failed = "") =>
         (UNCHANGED Stores /\ last'.t.emits = 0 /\ last'.t.wrote = {})]_vars

\* C8 happens: a tick found an open session that was not ready to close
C8_Witness ==
    last.w # "" /\ ~last.t.ready /\ last.t.failed = "" /\ last.t.seen # 0

\* C9: at no time are two executions of check_for_changes on the same
\* repository between their readiness check and their commit write.
C9_NoOverlappingBuilds ==
    Cardinality({w \in Watchers : pc[w] \in {"build", "commit", "write"}}) <= 1

\* C10: a tick that deletes the session record makes exactly one emit attempt,
\* and a tick that does not delete it makes none.
C10_OneEmitPerClosedSession ==
    last.w # "" => (last.t.emits = IF last.t.deleted THEN 1 ELSE 0)

\* the steps of a closing tick up to the return of write_gb_commit
StepsToCommit ==
    {"wd", "wd_tree", "session", "session_tree", "logs", "logs_tree", "root", "commit"}

\* C11: a failure in a closing tick before write_gb_commit completes aborts the
\* tick as a unit: the reference keeps its target, no commit is written, the
\* session record is not deleted and no notification is emitted.
C11_FailureAbortsTick ==
    [][(last'.w # "" /\ last'.t.failed \in StepsToCommit) =>
         /\ gb_ref' = gb_ref
         /\ commits' = commits
         /\ session' = session /\ session'.id = last'.t.seen
         /\ emitted' = emitted
         /\ ~last'.t.deleted /\ last'.t.emits = 0 /\ last'.t.commit_oid = 0]_vars

\* C11 happens: the build of a closing tick failed on a large file after its
\* content had been read, and the session is still open
C11_Witness ==
    /\ last.w # "" /\ last.t.failed = "wd" /\ last.t.reads # {}
    /\ \E p \in last.t.reads : Exceeds(wd[p].size, LARGE_FILE_BYTES)
    /\ session.id # 0 /\ session.id = last.t.seen

\* path p of commit n is entered as the blob of the file's real bytes, and
\* lfs/objects holds no copy of these bytes
Inline(n, p) ==
    /\ p \in DOMAIN commits[n].tree.wd.id
    /\ WdEntry(n, p).id.kind = "blob"
    /\ WdEntry(n, p).id.bytes = BytesAt(n, p)
    /\ \A c \in lfs : c.bytes # BytesAt(n, p)

SameInputs(n) ==
    /\ commits[n].files = commits[n - 1].files
    /\ commits[n].sid = commits[n - 1].sid
    /\ commits[n].meta = commits[n - 1].meta

C14_TreeHoldsTheNotIgnored ==
    \A n \in 1..Len(commits) :
       DOMAIN commits[n].tree.wd.id = {p \in Paths : ignored[p] = "no"}

\* C14 happens: the evaluation failed for the first path listed, and the
\* snapshot was committed with the second path in its wd tree
C14_Witness ==
    /\ ignored["a"] = "err" /\ ignored["b"] = "no"
    /\ Len(commits) >= 1 /\ DOMAIN commits[1].tree.wd.id = {"b"}

\* C15: the root tree of every commit has exactly the three entries wd,
\* session and logs, each of directory mode 0o040000 (16384); wd is the tree
\* over the paths not ignored, session the tree of the blobs of the session
\* metadata files the tick found, logs the tree of the single entry HEAD.
C15_RootTreeShape ==
    \A n \in 1..Len(commits) :
       /\ DOMAIN commits[n].tree = {"wd", "session", "logs"}
       /\ \A name \in DOMAIN commits[n].tree : commits[n].tree[name].mode = 16384
       /\ DOMAIN commits[n].tree.wd.id = {p \in Paths : ignored[p] = "no"}
       /\ DOMAIN commits[n].tree.session.id = DOMAIN commits[n].meta
       /\ \A f \in DOMAIN commits[n].meta :
             commits[n].tree.session.id[f].id = [kind |-> "blob", bytes |-> commits[n].meta[f]]
       /\ DOMAIN commits[n].tree.logs.id = {"HEAD"}
       /\ commits[n].tree.logs.id["HEAD"].id = [kind |-> "blob", bytes |-> LogHead]

\* C15 happens: refs/gitbutler/current points at the second commit of a chain
C15_Witness ==
    /\ gb_ref = 2 /\ commits[2].parents = <<1>>
    /\ DOMAIN commits[2].tree = {"wd", "session", "logs"}

\* the latest time of the clock: a session opened then sees no time pass
Horizon == CHOOSE c \in ClockValues : \A d \in ClockValues : d <= c

Deletes == session.id # 0 /\ session'.id = 0

\* C17: the session record is deleted only in a tick whose write_gb_commit has
\* succeeded, and when refs/gitbutler/current points at a commit whose session
\* subtree was built from the metadata of the session being deleted.
C17_DeleteOnlyAfterCommit ==
    [][Deletes =>
         /\ \E w \in Watchers : pc[w] = "delete" /\ pc'[w] = "view" /\ tick[w].commit_oid # 0
         /\ gb_ref # 0
         /\ commits[gb_ref].sid = session.id]_vars

\* C18: every session-metadata file content present when the record is deleted
\* is contained in the session subtree of the commit written in that tick.
C18_DeletedFilesAreCommitted ==
    [][Deletes =>
         \E w \in Watchers :
            /\ pc[w] = "delete" /\ pc'[w] = "view" /\ tick[w].commit_oid # 0
            /\ \A f \in DOMAIN session_files(session) :
                  /\ f \in DOMAIN commits[tick[w].commit_oid].tree.session.id
                  /\ commits[tick[w].commit_oid].tree.session.id[f].id
                        = [kind |-> "blob", bytes |-> session_files(session)[f]]]_vars

\* C19: with last_ts or start_ts later than now, ready_to_commit neither aborts
\* the watcher nor reports the session ready to close.
C19_FutureTimestampsAreSafe ==
    [][\A w \in Watchers :
         (/\ pc[w] = "idle"
          /\ session.id # 0
          /\ (session.last_ts > clock \/ session.start_ts > clock))
            => pc'[w] = "idle"]_vars

\* C20: whatever the size of a file that is not ignored, the working-directory
\* build of a closing tick in which nothing else fails completes with an entry
\* for the file.
C20_AnySizeIsSnapshotted ==
    \A w \in Watchers :
       pc[w] = "build" =>
          /\ build_wd_index("none", "a").status = "ok"
          /\ \A p \in Paths :
                ignored[p] = "no" => p \in DOMAIN build_wd_index("none", "a").index

====
